---- MODULE Spec2Model ----
(***************************************************************************)
(* XNReader.__init__ of xngraph.py as a state machine: the root check, one *)
(* step per Node of the document, one step per Link, and the return to the *)
(* caller.  Python strings are tuples of one-character strings, so that    *)
(* slicing, str.replace, the regular expressions, int() and float() are    *)
(* computed character by character.  Python dicts are functions whose      *)
(* domain is the set of keys present.                                      *)
(***************************************************************************)
EXTENDS Integers, Sequences, FiniteSets, TLC

VARIABLES
    doc,          \* the parsed input: t (what ET gave), tag (root.tag), Nodes, Links
    ignorenodes,  \* the ignorenodes argument, as a set of node ids
    pc,           \* position in __init__: "root", "nodes", "links", "end", "returned", "raised"
    exc,          \* the exception that left __init__, "none" while none did
    nodes,        \* self.nodes
    links,        \* self.links
    delays,       \* the local variable `delays` of __init__
    ni,           \* Nodes of the document already visited by the first loop
    li,           \* Links of the document already visited by the second loop
    XNR           \* what the caller's `XNR = XNReader(...)` is bound to

vars == <<doc, ignorenodes, pc, exc, nodes, links, delays, ni, li, XNR>>

-----------------------------------------------------------------------------
(* Bounds of the model *)

MaxNodes == 2
MaxLinks == 2

SeqsUpTo(S, n) == UNION {[1..k -> S] : k \in 0..n}

-----------------------------------------------------------------------------
(* Python values *)

PyStr(s) == [t |-> "str", v |-> s]
PyInt(n) == [t |-> "int", v |-> n]
PyFloat(n, d) == [t |-> "float", num |-> n, den |-> d]

Digits == {"0", "1", "2", "3", "4", "5", "6", "7", "8", "9"}

DigitVal(c) ==
    CASE c = "0" -> 0 [] c = "1" -> 1 [] c = "2" -> 2 [] c = "3" -> 3
      [] c = "4" -> 4 [] c = "5" -> 5 [] c = "6" -> 6 [] c = "7" -> 7
      [] c = "8" -> 8 [] c = "9" -> 9

\* s[a:] of Python with 0-based a, as the 1-based suffix from position a+1
From(s, i) == SubSeq(s, i, Len(s))

StartsWith(s, p) == Len(s) >= Len(p) /\ SubSeq(s, 1, Len(p)) = p

\* str.replace(old, ''): every non-overlapping occurrence, left to right
RECURSIVE Replace(_, _)
Replace(s, old) ==
    IF s = <<>> THEN <<>>
    ELSE IF StartsWith(s, old) THEN Replace(From(s, Len(old) + 1), old)
    ELSE <<Head(s)>> \o Replace(Tail(s), old)

\* str.lower() on the characters the inputs use
LowerChar(c) ==
    CASE c = "M" -> "m" [] c = "K" -> "k" [] c = "H" -> "h" [] c = "Z" -> "z"
      [] OTHER -> c

Lower(s) == [i \in 1..Len(s) |-> LowerChar(s[i])]

\* the value of a string of decimal digits
RECURSIVE DigitsVal(_)
DigitsVal(s) ==
    IF s = <<>> THEN 0
    ELSE 10 * DigitsVal(SubSeq(s, 1, Len(s) - 1)) + DigitVal(s[Len(s)])

\* int(s) for a str: an optional sign and decimal digits, ValueError otherwise
ParseInt(s) ==
    LET signed == s # <<>> /\ s[1] \in {"-", "+"}
        body   == IF signed THEN Tail(s) ELSE s
    IN  IF body = <<>> \/ \E i \in 1..Len(body) : body[i] \notin Digits
        THEN [err |-> "ValueError", val |-> 0]
        ELSE [err |-> "none",
              val |-> IF signed /\ s[1] = "-" THEN 0 - DigitsVal(body)
                      ELSE DigitsVal(body)]

RECURSIVE Pow10(_)
Pow10(k) == IF k = 0 THEN 1 ELSE 10 * Pow10(k - 1)

\* a decimal fraction n/d in lowest power-of-ten terms (1.50 and 1.5 are one float)
RECURSIVE Norm(_, _)
Norm(n, d) == IF d > 1 /\ n % 10 = 0 THEN Norm(n \div 10, d \div 10) ELSE PyFloat(n, d)

\* float(s) for s over [0-9.]: at most one dot and at least one digit
ParseFloat(s) ==
    LET dots   == {i \in 1..Len(s) : s[i] = "."}
        digs   == SelectSeq(s, LAMBDA c : c \in Digits)
    IN  IF Cardinality(dots) > 1 \/ digs = <<>>
        THEN [err |-> "ValueError", val |-> PyFloat(0, 1)]
        ELSE [err |-> "none",
              val |-> IF dots = {} THEN PyFloat(DigitsVal(digs), 1)
                      ELSE LET p == CHOOSE i \in dots : TRUE
                           IN  Norm(DigitsVal(digs), Pow10(Len(s) - p))]

-----------------------------------------------------------------------------
(* XNReader class attributes and FreqConv *)

NetworkTag == "{http://www.xmos.com}Network"

linkmap ==
    [c \in {"A", "B", "C", "D", "E", "F", "G", "H"} |->
        CASE c = "A" -> 2 [] c = "B" -> 3 [] c = "C" -> 0 [] c = "D" -> 1
          [] c = "E" -> 6 [] c = "F" -> 7 [] c = "G" -> 4 [] c = "H" -> 5]

ConvM == 1000000
ConvK == 1000

conv(c) == IF c = "m" THEN ConvM ELSE ConvK

NumChars == Digits \cup {"."}

\* length of the longest prefix of s over the characters in S
RECURSIVE PrefixLen(_, _)
PrefixLen(s, S) ==
    IF s = <<>> \/ Head(s) \notin S THEN 0 ELSE 1 + PrefixLen(Tail(s), S)

\* FreqConv: re.match(r"([0-9\.]+)\s*(.)?(hz)?", str(value).lower()), float of
\* group 1, times conv[group 2] when group 2 is 'm' or 'k'
FreqConv(value) ==
    LET s    == Lower(value)
        n1   == PrefixLen(s, NumChars)
        g1   == SubSeq(s, 1, n1)
        rest == From(s, n1 + 1)
        ws   == PrefixLen(rest, {" "})
        g2   == IF ws < Len(rest) THEN <<rest[ws + 1]>> ELSE <<>>
        f    == ParseFloat(g1)
    IN  IF n1 = 0 THEN [err |-> "AttributeError", val |-> PyFloat(0, 1)]
        ELSE IF f.err # "none" THEN f
        ELSE IF g2 # <<>> /\ g2[1] \in {"m", "k"}
             THEN [err |-> "none", val |-> Norm(f.val.num * conv(g2[1]), f.val.den)]
             ELSE f

-----------------------------------------------------------------------------
(* The node loop *)

DefaultOscillator == 20000000
DefaultSystemFrequency == 400000000
DefaultReferenceFrequency == 100000000

s_device == <<"d", "e", "v", "i", "c", "e", ":">>
s_periph == <<"p", "e", "r", "i", "p", "h", ":">>

Has(el, key) == key \in DOMAIN el.attrib

\* the filter of the comprehension that feeds the node loop
NodeKept(Node) ==
    /\ Node.attrib.Id \notin ignorenodes
    /\ ~(Has(Node, "Type") /\ Node.attrib.Type = s_device)

\* the defaults of a fresh attrs dict
AttrDefaults(Node) ==
    [Oscillator |-> PyFloat(DefaultOscillator, 1),
     SystemFrequency |-> PyFloat(DefaultSystemFrequency, 1),
     ReferenceFrequency |-> PyFloat(DefaultReferenceFrequency, 1),
     ref |-> PyStr(Node.attrib.Id)]

\* the keys of attrs that the Node declares: each goes through FreqConv
Declared(Node) == {x \in DOMAIN AttrDefaults(Node) : Has(Node, x)}

\* the exceptions attrs.update(...) can raise: that of whichever failing key
\* the dict's key order reaches first
UpdateErrors(Node) ==
    {FreqConv(Node.attrib[x]).err : x \in Declared(Node)} \ {"none"}

\* re.search(r'\[(.*?)\]', ref): the text between the first '[' and the first
\* ']' after it
BracketGroup(ref) ==
    LET opens == {i \in 1..Len(ref) : ref[i] = "["}
    IN  IF opens = {} THEN [found |-> FALSE, g |-> <<>>]
        ELSE LET o == CHOOSE i \in opens : \A j \in opens : i <= j
                 closes == {i \in (o + 1)..Len(ref) : ref[i] = "]"}
             IN  IF closes = {} THEN [found |-> FALSE, g |-> <<>>]
                 ELSE LET c == CHOOSE i \in closes : \A j \in closes : i <= j
                      IN  [found |-> TRUE, g |-> SubSeq(ref, o + 1, c - 1)]

\* core.attrib.get('Reference', 'tile[{}]'.format(Node.attrib['Id']))
CoreReference(core, Node) ==
    IF Has(core, "Reference") THEN core.attrib.Reference
    ELSE <<"t", "i", "l", "e", "[">> \o Node.attrib.Id \o <<"]">>

\* the Core loop, which breaks after its first iteration
CoreRef(Node) ==
    LET m == BracketGroup(CoreReference(Node.children[1], Node))
    IN  IF ~m.found THEN [err |-> "AttributeError", val |-> 0]
        ELSE ParseInt(m.g)

\* attrs as stored in self.nodes when nothing raised
Attrs(Node) ==
    LET a0 == [x \in DOMAIN AttrDefaults(Node) |->
                  IF x \in Declared(Node) THEN FreqConv(Node.attrib[x]).val
                  ELSE AttrDefaults(Node)[x]]
        a1 == IF Has(Node, "RoutingId")
              THEN ("RoutingId" :> PyStr(Node.attrib.RoutingId)) @@ a0 ELSE a0
        a2 == IF Has(Node, "Type") /\ StartsWith(Node.attrib.Type, s_periph)
              THEN ("p" :> TRUE) @@ a1 ELSE a1
    IN  IF Node.children # <<>>
        THEN [a2 EXCEPT !.ref = PyInt(CoreRef(Node).val)]
        ELSE a2

-----------------------------------------------------------------------------
(* The link loop *)

Unbound == [bound |-> FALSE, v |-> <<>>]
Bound(s) == [bound |-> TRUE, v |-> s]

s_clk == <<"c", "l", "k">>

\* as LinkFiltered, with XSCOPE links let through
LinkFiltered_NoXscope(Link) ==
    \/ Has(Link, "Flags") /\ Link.attrib.Flags \in {"SOD"}
    \/ Has(Link, "direction")

\* the two `continue`s at the top of the loop body
LinkFiltered(Link) ==
    \/ Has(Link, "Flags") /\ Link.attrib.Flags \in {"SOD", "XSCOPE"}
    \/ Has(Link, "direction")

\* encoding, IndexError for Encoding=""
EncodingOf(Link) ==
    IF Has(Link, "Encoding") THEN SubSeq(Link.attrib.Encoding, 1, 1) ELSE <<"2">>

\* `delays` after the assignment guarded by 'Delays' in Link.attrib
DelaysAfter(Link, old) ==
    IF Has(Link, "Delays") THEN Bound(Replace(Link.attrib.Delays, s_clk)) ELSE old

\* as AnyIgnored, looking at the first endpoint only
AnyIgnored_FirstOnly(Ends) == Ends # <<>> /\ Ends[1].attrib.NodeId \in ignorenodes

\* any(map(lambda(x): x.attrib['NodeId'] in ignorenodes, Ends))
AnyIgnored(Ends) == \E i \in 1..Len(Ends) : Ends[i].attrib.NodeId \in ignorenodes

\* as LDelay, with the endpoint's own Delays never read
LDelay_LinkOnly(End, d) == d

\* ldelay for endpoint End, given the current `delays`
LDelay(End, d) ==
    IF Has(End, "Delays") THEN Bound(Replace(End.attrib.Delays, s_clk)) ELSE d

\* the dict appended for the direction from a to b
Edge(a, b, encoding, ldelay) ==
    [src |-> a.attrib.NodeId, dst |-> b.attrib.NodeId,
     num |-> linkmap[a.attrib.Link[Len(a.attrib.Link)]],
     attr |-> [enc |-> encoding, del |-> ldelay]]

\* the exception of self.linkmap[End.attrib['Link'][-1]], "none" when it has a value
LabelError(End) ==
    IF End.attrib.Link = <<>> THEN "IndexError"
    ELSE IF End.attrib.Link[Len(End.attrib.Link)] \notin DOMAIN linkmap THEN "KeyError"
    ELSE "none"

\* One pass of the loop body from `Ends = ...` on, for a Link that was not
\* filtered: the edges appended and the exception raised, in statement order.
LinkBody(Link, d) ==
    LET Ends == Link.children
        enc  == EncodingOf(Link)
        l0   == LDelay(Ends[1], d)
        l1   == LDelay(Ends[2], d)
        e0   == Edge(Ends[1], Ends[2], enc, l0.v)
        e1   == Edge(Ends[2], Ends[1], enc, l1.v)
    IN  IF AnyIgnored(Ends) THEN [app |-> <<>>, err |-> "none"]
        ELSE IF Len(Ends) = 0 THEN [app |-> <<>>, err |-> "IndexError"]
        ELSE IF ~l0.bound THEN [app |-> <<>>, err |-> "UnboundLocalError"]
        ELSE IF Len(Ends) = 1 THEN [app |-> <<>>, err |-> "IndexError"]
        ELSE IF LabelError(Ends[1]) # "none"
             THEN [app |-> <<>>, err |-> LabelError(Ends[1])]
        ELSE IF ~l1.bound THEN [app |-> <<e0>>, err |-> "UnboundLocalError"]
        ELSE IF LabelError(Ends[2]) # "none"
             THEN [app |-> <<e0>>, err |-> LabelError(Ends[2])]
        ELSE [app |-> <<e0, e1>>, err |-> "none"]

-----------------------------------------------------------------------------
(* Input documents *)

i0 == <<"0">>
i1 == <<"1">>
i2 == <<"2">>
i5 == <<"5">>
ix == <<"x">>

El(a) == [attrib |-> a, children |-> <<>>]
ElC(a, c) == [attrib |-> a, children |-> c]

Ep(id, lab) == El([NodeId |-> id, Link |-> lab])
EpD(id, lab, d) == El([NodeId |-> id, Link |-> lab, Delays |-> d])

d3 == <<"3", "c", "l", "k">>
d4 == <<"4", "c", "l", "k">>
d5 == <<"5", "c", "l", "k">>
d7 == <<"7", "c", "l", "k">>

lA == <<"A">>
lB == <<"X", "L", "B">>

BaseEnds == <<Ep(i0, lA), Ep(i1, lB)>>

\* Links that differ in the attributes the two `continue`s read
FlagLinks ==
    {ElC([Flags |-> "SOD", Delays |-> d7], BaseEnds),
     ElC([Flags |-> "XSCOPE", Delays |-> d7], BaseEnds),
     ElC([Flags |-> "JTAG", Delays |-> d7], BaseEnds),
     ElC([direction |-> "0", Delays |-> d7], BaseEnds)}

\* Links that differ in where a delay is declared
DelayLinks ==
    {ElC(a, <<e0, e1>>) :
        a \in {[Encoding |-> <<"5", "w">>], [Encoding |-> <<"5", "w">>, Delays |-> d5]},
        e0 \in {Ep(i0, lA), EpD(i0, lA, d3)},
        e1 \in {Ep(i1, lB), EpD(i1, lB, d4)}}

\* Links that differ in the link labels of their endpoints
LabelLinks ==
    {ElC([Delays |-> d5], <<Ep(i0, p[1]), Ep(i1, p[2])>>) :
        p \in {<<<<"C">>, <<"D">>>>, <<<<"E">>, <<"F">>>>, <<<<"G">>, <<"H">>>>,
               <<<<"Z">>, lA>>, <<lA, <<"X", "L", "Z">>>>, <<lA, <<>>>>}}
    \cup {ElC(<<>>, <<Ep(i0, <<"Z">>), Ep(i1, lB)>>)}

\* Links that differ in the nodes they attach to
IdLinks ==
    {ElC([Delays |-> d5], <<Ep(p[1], lA), Ep(p[2], lB)>>) :
        p \in {<<i0, i2>>, <<i2, i1>>}}
    \cup {ElC(<<>>, <<Ep(i0, lA), Ep(i2, lB)>>)}

\* Links that differ in the number of LinkEndpoint children
EndsLinks ==
    {ElC([Delays |-> d5], e) :
        e \in {<<>>, <<Ep(i0, lA)>>, <<Ep(i1, lB)>>,
               <<Ep(i0, lA), Ep(i2, lB), Ep(i1, <<"C">>)>>}}
    \cup {El([Encoding |-> <<>>]), ElC([Delays |-> <<"7">>], BaseEnds)}

LinkDecls == FlagLinks \cup DelayLinks \cup LabelLinks \cup IdLinks \cup EndsLinks

Core(r) == El([Reference |-> r])

s_tile2 == <<"t", "i", "l", "e", "[", "2", "]">>
s_tile3 == <<"t", "i", "l", "e", "[", "3", "]">>

PlainNodes ==
    {El([Id |-> i0]),
     El([Id |-> i1, Type |-> s_periph \o <<"u", "s", "b">>]),
     El([Id |-> i2, Type |-> s_device])}

FreqStrings ==
    {<<"1", "0", "0", "M", "H", "z">>,
     <<"1", "0", "0", "0", "0", "0", "0", "0", "0">>,
     <<"1", "0", "0", "m", "h", "z">>,
     <<"1", "0", "0", " ", "M">>,
     <<"5", "0", "k">>,
     <<"5", "0", "K", "H", "z">>,
     <<"2", ".", "5", "0", "k">>,
     <<"1", "0", "0", "h", "z">>,
     <<"0", "M", "H", "z">>,
     <<"M", "H", "z">>,
     <<"1", ".", "2", ".", "3">>}

FreqNodes ==
    {El([Id |-> i5, Oscillator |-> f]) : f \in FreqStrings}
    \cup {El([Id |-> i5, SystemFrequency |-> <<"5", "0", "0", "M", "H", "z">>,
              ReferenceFrequency |-> f]) : f \in {<<"5", "0", "k">>, <<"M", "H", "z">>}}
    \cup {El([Id |-> i5, Oscillator |-> <<"M", "H", "z">>, SystemFrequency |-> <<".">>])}

CoreNodes ==
    {ElC([Id |-> id], c) :
        id \in {i5, ix},
        c \in {<<Core(s_tile2)>>, <<El(<<>>)>>, <<Core(s_tile2), Core(s_tile3)>>,
               <<Core(<<"s", "t", "d", "c", "o", "r", "e">>)>>,
               <<Core(<<"t", "i", "l", "e", "[", "a", "]">>)>>}}

OtherNodes ==
    {El([Id |-> i5]), El([Id |-> ix]),
     El([Id |-> i5, RoutingId |-> <<"8", "0", "0", "0">>]),
     El([Id |-> i5, ref |-> <<"7">>]),
     El([Id |-> i5, Type |-> s_device \o <<"x">>])}

NodeDecls == PlainNodes \cup FreqNodes \cup CoreNodes \cup OtherNodes

Tags == {NetworkTag, "{http://www.xmos.com}Platform", "Network"}

IgnoreSets == {{}, {i1}}

-----------------------------------------------------------------------------
(* The state machine *)

InitCommon ==
    /\ pc = "root" /\ exc = "none"
    /\ nodes = <<>> /\ links = <<>>
    /\ delays = Unbound
    /\ ni = 0 /\ li = 0
    /\ XNR = [bound |-> FALSE, nodes |-> <<>>, links |-> <<>>]
    /\ ignorenodes \in IgnoreSets

\* every node id a Link names is declared; node 2 is or is not a device
SmallNodeDocs ==
    {<<El([Id |-> i0]), El([Id |-> i1]), El([Id |-> i2])>>,
     <<El([Id |-> i0]), El([Id |-> i1]), El([Id |-> i2, Type |-> s_device])>>}

\* documents that vary in their Links
Init ==
    /\ InitCommon
    /\ doc \in [t : {"Element", "ElementTree"}, tag : Tags,
                Nodes : SmallNodeDocs,
                Links : SeqsUpTo(LinkDecls, MaxLinks)]

\* documents that vary in their Nodes
InitNodes ==
    /\ InitCommon
    /\ doc \in [t : {"Element", "ElementTree"}, tag : Tags,
                Nodes : SeqsUpTo(NodeDecls, MaxNodes),
                Links : {<<>>, <<ElC([Delays |-> d5], BaseEnds)>>}]

\* where control goes once n Nodes and l Links have been visited
LoopPc(n, l) ==
    IF n < Len(doc.Nodes) THEN "nodes"
    ELSE IF l < Len(doc.Links) THEN "links" ELSE "end"

Raise(e) == pc' = "raised" /\ exc' = e

\* lines 76-87: `'getroot' not in t` needs t iterable, which the ElementTree
\* that ET.parse returns is not; then the check of root.tag
CheckRoot ==
    /\ pc = "root"
    /\ IF doc.t = "ElementTree" THEN Raise("TypeError")
       ELSE IF doc.tag # NetworkTag THEN Raise("Exception")
       ELSE pc' = LoopPc(0, 0) /\ exc' = exc
    /\ UNCHANGED <<doc, ignorenodes, nodes, links, delays, ni, li, XNR>>

\* lines 88-106 for the next Node of the document
NodeStep ==
    /\ pc = "nodes"
    /\ LET Node == doc.Nodes[ni + 1]
       IN  IF ~NodeKept(Node)
           THEN pc' = LoopPc(ni + 1, li) /\ exc' = exc /\ nodes' = nodes
           ELSE IF UpdateErrors(Node) # {}
           THEN /\ \E e \in UpdateErrors(Node) : Raise(e)
                /\ nodes' = nodes
           ELSE IF Node.children # <<>> /\ CoreRef(Node).err # "none"
           THEN Raise(CoreRef(Node).err) /\ nodes' = nodes
           ELSE /\ pc' = LoopPc(ni + 1, li) /\ exc' = exc
                /\ nodes' = [x \in DOMAIN nodes \cup {Node.attrib.Id} |->
                                IF x = Node.attrib.Id THEN Attrs(Node) ELSE nodes[x]]
    /\ ni' = ni + 1
    /\ UNCHANGED <<doc, ignorenodes, links, delays, li, XNR>>

\* lines 107-137 for the next Link of the document
LinkStep ==
    /\ pc = "links"
    /\ LET Link == doc.Links[li + 1]
           d    == DelaysAfter(Link, delays)
           r    == LinkBody(Link, d)
       IN  IF LinkFiltered(Link)
           THEN pc' = LoopPc(ni, li + 1) /\ exc' = exc
                /\ links' = links /\ delays' = delays
           ELSE IF Has(Link, "Encoding") /\ Link.attrib.Encoding = <<>>
           THEN Raise("IndexError") /\ links' = links /\ delays' = delays
           ELSE /\ links' = links \o r.app
                /\ delays' = d
                /\ IF r.err # "none" THEN Raise(r.err)
                   ELSE pc' = LoopPc(ni, li + 1) /\ exc' = exc
    /\ li' = li + 1
    /\ UNCHANGED <<doc, ignorenodes, nodes, ni, XNR>>

\* __init__ returns and line 153 binds the object
Return ==
    /\ pc = "end"
    /\ pc' = "returned"
    /\ XNR' = [bound |-> TRUE, nodes |-> nodes, links |-> links]
    /\ UNCHANGED <<doc, ignorenodes, exc, nodes, links, delays, ni, li>>

Next == CheckRoot \/ NodeStep \/ LinkStep \/ Return

Spec == Init /\ [][Next]_vars

SpecNodes == InitNodes /\ [][Next]_vars

-----------------------------------------------------------------------------
(* Vocabulary of the properties, written from the statements checked and   *)
(* not from the operators of the loops above                               *)

\* the Link the second loop visited last, and the one it visits next
LastLink == doc.Links[li]
NextLink == doc.Links[li + 1]
LastNode == doc.Nodes[ni]

Running == pc \in {"nodes", "links", "end", "returned"}

\* a Link with Flags SOD or XSCOPE, or with a direction attribute
Administrative(Link) ==
    \/ "direction" \in DOMAIN Link.attrib
    \/ /\ "Flags" \in DOMAIN Link.attrib
       /\ (Link.attrib.Flags = "SOD" \/ Link.attrib.Flags = "XSCOPE")

ExcludedEnd(Link) ==
    \E i \in 1..Len(Link.children) : Link.children[i].attrib.NodeId \in ignorenodes

Surviving(Link) == ~Administrative(Link) /\ ~ExcludedEnd(Link)

\* a delay string with its "clk" removed
RECURSIVE ClkRemoved(_)
ClkRemoved(s) ==
    IF Len(s) < 3 THEN s
    ELSE IF s[1] = "c" /\ s[2] = "l" /\ s[3] = "k" THEN ClkRemoved(SubSeq(s, 4, Len(s)))
    ELSE <<s[1]>> \o ClkRemoved(SubSeq(s, 2, Len(s)))

\* the delay the Link itself gives the edge whose source is its i-th endpoint
OwnDelay(Link, i) ==
    IF "Delays" \in DOMAIN Link.children[i].attrib
    THEN ClkRemoved(Link.children[i].attrib.Delays)
    ELSE ClkRemoved(Link.attrib.Delays)

\* src and dst of the two edges of each surviving Link, in document order
RECURSIVE ExpectedPairs(_)
ExpectedPairs(ls) ==
    IF ls = <<>> THEN <<>>
    ELSE LET L == ls[Len(ls)]
             before == ExpectedPairs(SubSeq(ls, 1, Len(ls) - 1))
         IN  IF ~Surviving(L) THEN before
             ELSE IF Len(L.children) < 2 THEN before \o << <<"malformed">> >>
             ELSE before \o
                  <<<<L.children[1].attrib.NodeId, L.children[2].attrib.NodeId>>,
                    <<L.children[2].attrib.NodeId, L.children[1].attrib.NodeId>>>>

Pairs(es) == [i \in 1..Len(es) |-> <<es[i].src, es[i].dst>>]

LastChar(s) == s[Len(s)]

BadLabel(End) ==
    /\ End.attrib.Link # <<>>
    /\ LastChar(End.attrib.Link) \notin {"A", "B", "C", "D", "E", "F", "G", "H"}

FreqKeys == {"Oscillator", "SystemFrequency", "ReferenceFrequency"}

-----------------------------------------------------------------------------
(* C1: after a successful extraction every edge's src and dst are keys of  *)
(* the node mapping.                                                       *)
C1_EdgeEndsAreNodes ==
    pc = "returned" =>
        \A i \in 1..Len(links) :
            links[i].src \in DOMAIN nodes /\ links[i].dst \in DOMAIN nodes

(* C2: an excluded node id is never a key of the node mapping and never    *)
(* the src or dst of an edge, and a Link with an excluded endpoint adds no *)
(* edge at all, whatever its other endpoints are.                          *)
C2_NoTraceOfExcluded ==
    \A X \in ignorenodes :
        /\ X \notin DOMAIN nodes
        /\ \A i \in 1..Len(links) : links[i].src # X /\ links[i].dst # X

C2_ExcludedLinkAddsNothing ==
    (pc = "links" /\ ExcludedEnd(NextLink)) => (links' = links /\ pc' # "raised")

\* C2: both parts, in every state and at every step
C2_ExcludedNodeRemoved ==
    [] C2_NoTraceOfExcluded /\ [][C2_ExcludedLinkAddsNothing]_vars

\* a Link joining an excluded and a kept node was visited, after other edges
C2_Witness ==
    /\ Running /\ li > 0 /\ links # <<>>
    /\ ~Administrative(LastLink)
    /\ \E a, b \in 1..Len(LastLink.children) :
          /\ LastLink.children[a].attrib.NodeId \in ignorenodes
          /\ LastLink.children[b].attrib.NodeId \notin ignorenodes
    /\ \E n \in 1..Len(doc.Nodes) : doc.Nodes[n].attrib.Id \in ignorenodes

(* C3: the edge sequence is the concatenation, in document order over the  *)
(* surviving Links visited, of endpoint[0]->endpoint[1] then               *)
(* endpoint[1]->endpoint[0]; both edges of a Link carry one encoding.      *)
C3_EdgesInDocumentOrder ==
    pc \in {"links", "end", "returned"} =>
        /\ Pairs(links) = ExpectedPairs(SubSeq(doc.Links, 1, li))
        /\ Len(links) =
             2 * Cardinality({j \in 1..li : Surviving(doc.Links[j])})
        /\ \A k \in 1..(Len(links) \div 2) :
              links[2 * k - 1].attr.enc = links[2 * k].attr.enc

\* two Links were visited, one survived and one did not
C3_Witness ==
    /\ pc = "returned" /\ li = 2 /\ Len(links) = 2
    /\ Administrative(doc.Links[1]) /\ Surviving(doc.Links[2])

(* C4: for a surviving Link with a link-level Delays, each edge carries    *)
(* its source endpoint's own Delays when declared and the link-level value *)
(* otherwise, "clk" removed; X/A, Y/B, "5clk" gives X->Y{2,"5"},           *)
(* Y->X{3,"5"}.                                                            *)
C4_DelayPerDirection ==
    (/\ pc \in {"links", "end", "returned"} /\ li > 0
     /\ Surviving(LastLink) /\ "Delays" \in DOMAIN LastLink.attrib
     /\ Len(LastLink.children) >= 2)
    => /\ Len(links) >= 2
       /\ LET e0 == links[Len(links) - 1]
              e1 == links[Len(links)]
          IN  /\ e0.src = LastLink.children[1].attrib.NodeId
              /\ e1.src = LastLink.children[2].attrib.NodeId
              /\ e0.attr.del = OwnDelay(LastLink, 1)
              /\ e1.attr.del = OwnDelay(LastLink, 2)
              /\ (LastLink = ElC([Delays |-> d5], <<Ep(i0, lA), Ep(i2, lB)>>)
                  => /\ e0 = [src |-> i0, dst |-> i2, num |-> 2,
                              attr |-> [enc |-> <<"2">>, del |-> <<"5">>]]
                     /\ e1 = [src |-> i2, dst |-> i0, num |-> 3,
                              attr |-> [enc |-> <<"2">>, del |-> <<"5">>]])

\* a Link with a link-level delay and an override on its first endpoint only
C4_Witness ==
    /\ pc \in {"links", "end", "returned"} /\ li > 0
    /\ Surviving(LastLink) /\ "Delays" \in DOMAIN LastLink.attrib
    /\ Len(LastLink.children) = 2
    /\ "Delays" \in DOMAIN LastLink.children[1].attrib
    /\ "Delays" \notin DOMAIN LastLink.children[2].attrib
    /\ links[Len(links) - 1].attr.del = <<"3">>
    /\ links[Len(links)].attr.del = <<"5">>

(* C5: a Link that passes the Flags/direction filters and has a number of  *)
(* LinkEndpoint children other than two makes extraction fail with the     *)
(* missing-endpoints error (the IndexError of Ends[i]) and adds no edge.   *)
C5_WrongEndpointCountFails ==
    [][(pc = "links" /\ ~Administrative(NextLink) /\ Len(NextLink.children) # 2)
       => (pc' = "raised" /\ exc' = "IndexError" /\ links' = links)]_vars

(* C6: every edge's channel is the fixed map of the last character of its  *)
(* source endpoint's label, and a surviving Link with an endpoint label    *)
(* ending outside A-H makes extraction fail with the unknown-label error   *)
(* (the KeyError of linkmap) and the caller obtains no graph.              *)
C6_ChannelOfLastLink ==
    (pc \in {"links", "end", "returned"} /\ li > 0 /\ Surviving(LastLink)
     /\ Len(LastLink.children) >= 2)
    => /\ Len(links) >= 2
       /\ \A i \in 1..2 :
             links[Len(links) - 2 + i].num =
                CASE LastChar(LastLink.children[i].attrib.Link) = "A" -> 2
                  [] LastChar(LastLink.children[i].attrib.Link) = "B" -> 3
                  [] LastChar(LastLink.children[i].attrib.Link) = "C" -> 0
                  [] LastChar(LastLink.children[i].attrib.Link) = "D" -> 1
                  [] LastChar(LastLink.children[i].attrib.Link) = "E" -> 6
                  [] LastChar(LastLink.children[i].attrib.Link) = "F" -> 7
                  [] LastChar(LastLink.children[i].attrib.Link) = "G" -> 4
                  [] LastChar(LastLink.children[i].attrib.Link) = "H" -> 5

C6_BadLabelStep ==
    (/\ pc = "links" /\ Surviving(NextLink) /\ Len(NextLink.children) = 2
     /\ \E i \in 1..2 : BadLabel(NextLink.children[i]))
    => (pc' = "raised" /\ exc' = "KeyError" /\ ~XNR'.bound)

\* C6: the channel map in every state, the failure at every step on a bad label
C6_ChannelMapOrUnknownLabel ==
    [] C6_ChannelOfLastLink /\ [][C6_BadLabelStep]_vars

(* C7: a root tag other than Network in the fixed namespace raises the     *)
(* invalid-namespace exception before either loop runs, with the node      *)
(* mapping and the edge sequence still empty.                              *)
C7_InvalidNamespaceFirst ==
    (doc.tag # NetworkTag /\ pc # "root")
    => /\ pc = "raised" /\ exc = "Exception"
       /\ DOMAIN nodes = {} /\ links = <<>> /\ ni = 0 /\ li = 0

(* C8: tile_ref of an extracted Node is an integer: that of the first      *)
(* Core's bracketed reference when the Node has a Core, the integer value  *)
(* of the node id otherwise.                                               *)
C8_TileRefIsInteger ==
    (/\ Running /\ ni > 0
     /\ LastNode.attrib.Id \notin ignorenodes
     /\ ~("Type" \in DOMAIN LastNode.attrib /\ LastNode.attrib.Type = s_device))
    => /\ LastNode.attrib.Id \in DOMAIN nodes
       /\ LET ref == nodes[LastNode.attrib.Id].ref
          IN  /\ ref.t = "int"
              /\ ref.v =
                   IF LastNode.children = <<>> THEN ParseInt(LastNode.attrib.Id).val
                   ELSE IF "Reference" \in DOMAIN LastNode.children[1].attrib
                   THEN ParseInt(BracketGroup(LastNode.children[1].attrib.Reference).g).val
                   ELSE ParseInt(LastNode.attrib.Id).val

(* C9: every node of the mapping has its three frequencies strictly        *)
(* positive: the defaults 20e6 / 400e6 / 100e6 where nothing is declared.  *)
C9_FrequenciesPositive ==
    \A id \in DOMAIN nodes :
        /\ \A k \in FreqKeys : nodes[id][k].t = "float" /\ nodes[id][k].num > 0
        /\ (Running /\ ni > 0 /\ id = LastNode.attrib.Id
            /\ DOMAIN LastNode.attrib \cap FreqKeys = {})
           => /\ nodes[id].Oscillator = PyFloat(20000000, 1)
              /\ nodes[id].SystemFrequency = PyFloat(400000000, 1)
              /\ nodes[id].ReferenceFrequency = PyFloat(100000000, 1)

(* C10: a surviving Link with no link-level Delays gives the edge of an    *)
(* endpoint with no Delays an undefined delay, never the delay an earlier  *)
(* Link declared, and extraction goes on.                                  *)
C10_EarlierDelays ==
    {ClkRemoved(doc.Links[j].attrib.Delays) :
        j \in {k \in 1..li : "Delays" \in DOMAIN doc.Links[k].attrib}}

\* C10: at every step on such a Link, two more edges and no delay left over
C10_NoDelayFromEarlierLink ==
    [][(/\ pc = "links" /\ Surviving(NextLink) /\ Len(NextLink.children) = 2
        /\ "Delays" \notin DOMAIN NextLink.attrib
        /\ \A i \in 1..2 : ~BadLabel(NextLink.children[i])
                           /\ NextLink.children[i].attrib.Link # <<>>)
       => /\ pc' # "raised"
          /\ Len(links') = Len(links) + 2
          /\ \A i \in 1..2 :
                "Delays" \notin DOMAIN NextLink.children[i].attrib
                => links'[Len(links) + i].attr.del \notin C10_EarlierDelays]_vars

====
